---- MODULE Spec2Model ----
(***************************************************************************)
(* Issue list query / pagination controller of the Sentry front end:       *)
(* effective query resolution, transitionTo, cursor paging, the issues     *)
(* fetch, and the pin / unpin toggle of the smart search bar               *)
(* (makePinSearchAction.onTogglePinnedSearch).                             *)
(*                                                                         *)
(* JavaScript objects are functions from the set of their defined keys; a  *)
(* key whose value is undefined is a key outside the DOMAIN.               *)
(***************************************************************************)
EXTENDS Integers, Sequences, FiniteSets, TLC

VARIABLES
    location,       \* router location: [pathname, query]
    selection,      \* page filters: [projects, environments, datetime]
    organization,   \* the organization: [features]
    pinnedSearch,   \* Saved Search Directory: the pinned record, or None
    prePin,         \* history: search-bar text and sort the pinned record was made from
    calls,          \* pin / unpin directory calls in flight (a set of closures)
    requests,       \* issue fetches in flight
    lastRequest,    \* the most recently initiated fetch (the request-identity token)
    list,           \* what the list shows: [groupCount, queryCount, itemsRemoved, pageLinks], or None
    adopted,        \* the response the list and pagination currently show, or None
    linkHeader,     \* state.pageLinks: the Link header of the adopted response
    alertOptions,   \* IssueAlertOptions: the component's state, or None
    externalIssues, \* ExternalIssueList: props and state, or None
    landing,        \* PerformanceLanding: render history, or None
    gpuContext,     \* GPUEventContext: the data rendered, or None
    trail,          \* history: next clicks minus previous clicks since the last other navigation
    last            \* history: the most recent event and the navigation it issued

\* the components next to the issue list
widgets == <<alertOptions, externalIssues, landing, gpuContext>>

\* the issue list overview, its history apart
overview == <<location, selection, organization, pinnedSearch, prePin, calls, requests,
              lastRequest, adopted, linkHeader, list, trail>>

vars == <<overview, widgets, last>>

----------------------------------------------------------------------------
(* Bounds *)

\* pages the Issue Query Service has beyond the first one
LastPage == 2
\* largest value of the `page` display counter
MaxPage == 3
\* issue fetches in flight at once
MaxInFlight == 2
\* pin / unpin calls in flight at once
MaxCalls == 1
\* conditions in the response of the rule-conditions endpoint
MaxConditions == 2
\* largest GPU id / vendor id rendered
MaxGpuId == 3
\* entries of each list ExternalIssueList holds
MaxListed == 1
\* projects selected on the performance landing page
MaxSelected == 2
\* issue counts (X-Hits) tried exhaustively; larger ones are sampled
MaxQueryCount == 27
\* items removed from the list, tried exhaustively
MaxRemoved == 2

----------------------------------------------------------------------------
(* JavaScript object helpers *)

None == <<>>

Has(o, k) == k \in DOMAIN o

\* const {a, b, ...rest} = o
Omit(o, ks) == [k \in (DOMAIN o) \ ks |-> o[k]]

\* {...a, ...b}
Pick(o, ks) == [k \in (DOMAIN o) \cap ks |-> o[k]]
Spread(a, b) ==
    [k \in (DOMAIN a) \cup (DOMAIN b) |-> IF k \in DOMAIN b THEN b[k] ELSE a[k]]

----------------------------------------------------------------------------
(* Values *)

\* /organizations/{org}/issues/ and /organizations/{org}/issues/searches/{id}/
BasePath == [kind |-> "issues"]
SearchPath(id) == [kind |-> "searches", id |-> id]

DEFAULT_QUERY == "is:unresolved"
DEFAULT_SORT == "date"

\* the organization's saved searches (other than a pinned custom search)
SavedSearch789 ==
    [id |-> "789", query |-> "is:unresolved TypeError", sort |-> "date",
     projectId |-> 3559, isPinned |-> FALSE]
SavedSearch234 ==
    [id |-> "234", query |-> "assigned:me", sort |-> "date", isPinned |-> FALSE]
SavedSearches == {SavedSearch789, SavedSearch234}

\* a pinned custom search present when the page loads
PinnedSearch123 == [id |-> "123", query |-> "is:resolved", isPinned |-> TRUE]

\* identifier the directory gives a new pinned custom search
NewPinId == "666"

\* a pinned custom search that was pinned with a sort of its own
PinnedSearch666 == [id |-> NewPinId, query |-> "dogs", sort |-> "priority", isPinned |-> TRUE]

\* query texts a user submits in the search bar ("" clears the field)
QueryTexts == {"level:foo", ""}

\* a text typed into the search bar and not submitted (the bar keeps a trailing space)
TypedText == "dogs "

SavedSearchType == {"issue", "undefined"}

Selection123 ==
    [projects |-> <<123>>, environments |-> <<"prod">>, datetime |-> [period |-> "14d"]]
Selection99 == [projects |-> <<99>>, environments |-> <<>>, datetime |-> None]
Selections == {Selection123, Selection99}

\* the organization without and with the all-projects capability
OrgBasic == [features |-> {}]
OrgGlobalViews == [features |-> {"global-views"}]
Organizations == {OrgBasic, OrgGlobalViews}

\* saved searches handed to transitionTo: without project, with a project, with
\* a sort, and one that was never saved (no id)
Search123 == [id |-> "123", query |-> "foo:bar"]
Search123Project == [id |-> "123", projectId |-> 999, query |-> "foo:bar"]
Search123Sort == [id |-> "123", query |-> "foo:bar", sort |-> "freq"]
SearchUnsaved == [query |-> "foo:bar"]
TransitionTargets == {None, Search123, Search123Project, Search123Sort, SearchUnsaved}

\* overrides handed to transitionTo
Overrides ==
    {None, [query |-> "is:ignored"], [sort |-> "user"], [cursor |-> <<1, 0>>],
     [cursor |-> <<2, 0>>, page |-> 2]}

----------------------------------------------------------------------------
(* Saved-search context and effective query *)

SavedSearchById(id, pinned) ==
    IF pinned # None /\ pinned.id = id THEN pinned
    ELSE IF \E s \in SavedSearches : s.id = id
         THEN CHOOSE s \in SavedSearches : s.id = id
         ELSE None

\* variant: the pinned default also applies to a query parameter that is empty
GetSavedSearch_PinnedOnEmpty(loc, pinned) ==
    IF loc.pathname.kind = "searches" THEN SavedSearchById(loc.pathname.id, pinned)
    ELSE IF pinned # None /\ (~Has(loc.query, "query") \/ loc.query.query = "") THEN pinned
    ELSE None

\* the saved search in effect: selected by the route's searchId, or the pinned
\* default when the URL carries no query; None otherwise
GetSavedSearch(loc, pinned) ==
    IF loc.pathname.kind = "searches" THEN SavedSearchById(loc.pathname.id, pinned)
    ELSE IF pinned # None /\ ~Has(loc.query, "query") THEN pinned
    ELSE None

\* a slip: the saved search is consulted before the URL query
ResolveEffectiveQuery_SavedSearchFirst(loc, savedSearch) ==
    IF savedSearch # None THEN savedSearch.query
    ELSE IF Has(loc.query, "query") /\ loc.query.query # "" THEN loc.query.query
    ELSE DEFAULT_QUERY

\* a slip: the saved search is never consulted
ResolveEffectiveQuery_NoSavedSearch(loc, savedSearch) ==
    IF Has(loc.query, "query") /\ loc.query.query # "" THEN loc.query.query
    ELSE DEFAULT_QUERY

ResolveEffectiveQuery(loc, savedSearch) ==
    IF Has(loc.query, "query") /\ loc.query.query # "" THEN loc.query.query
    ELSE IF savedSearch # None THEN savedSearch.query
    ELSE DEFAULT_QUERY

\* a slip: the saved search's sort is consulted before the URL sort
ResolveSort_SavedSearchFirst(loc, savedSearch) ==
    IF savedSearch # None /\ Has(savedSearch, "sort") THEN [sort |-> savedSearch.sort]
    ELSE IF Has(loc.query, "sort") THEN [sort |-> loc.query.sort]
    ELSE None

\* {sort: ...} or {} : explicit URL sort, else the saved search's, else undefined
ResolveSort(loc, savedSearch) ==
    IF Has(loc.query, "sort") THEN [sort |-> loc.query.sort]
    ELSE IF savedSearch # None /\ Has(savedSearch, "sort") THEN [sort |-> savedSearch.sort]
    ELSE None

GetEndpointParams(loc, sel, savedSearch) ==
    LET base == [project |-> sel.projects,
                 environment |-> sel.environments,
                 query |-> ResolveEffectiveQuery(loc, savedSearch)]
        period == IF Has(sel.datetime, "period")
                  THEN [statsPeriod |-> sel.datetime.period] ELSE None
        s == ResolveSort(loc, savedSearch)
        sort == IF s # None /\ s.sort # DEFAULT_SORT THEN s ELSE None
    IN  Spread(Spread(base, period), sort)

\* the saved search is adopted: it has an id
Adopted(target) == target # None /\ Has(target, "id")

\* a slip: a saved search without a project clears the project filter
ProjectFilter_ClearsProject(query, target, org) ==
    IF Has(query, "cursor") THEN query
    ELSE IF Has(target, "projectId") THEN Spread(query, [project |-> <<target.projectId>>])
    ELSE Omit(query, {"project"})

\* a slip: the saved search's project is never applied
ProjectFilter_KeepsSelection(query, target, org) == query

\* a slip: the saved search's project is applied on every page
ProjectFilter_OnEveryPage(query, target, org) ==
    IF Has(target, "projectId")
    THEN Spread(query, [project |-> <<target.projectId>>])
    ELSE query

\* the project filter of a navigation to an adopted saved search: the search's
\* own project unless another page of the same search is asked for; the
\* selection is kept otherwise, with and without the global-views feature
ProjectFilter(query, target, org) ==
    IF ~Has(query, "cursor") /\ Has(target, "projectId")
    THEN Spread(query, [project |-> <<target.projectId>>])
    ELSE query

\* the sort of a navigation to an adopted saved search
SortFilter(query, target, newParams) ==
    IF ~Has(query, "cursor") /\ ~Has(newParams, "sort") /\ Has(target, "sort")
    THEN Spread(query, [sort |-> target.sort])
    ELSE query

\* a slip: the pagination of the current location is carried into the target
TransitionTo_KeepsPagination(newParams, target, loc, sel, pinned, org) ==
    LET q0 == Spread(Spread(GetEndpointParams(loc, sel, GetSavedSearch(loc, pinned)),
                            Pick(loc.query, {"cursor", "page"})),
                     newParams)
    IN  IF Adopted(target)
        THEN [pathname |-> SearchPath(target.id), query |-> Omit(q0, {"query"})]
        ELSE [pathname |-> BasePath, query |-> q0]

\* a slip: a transition that adopts no saved search stays on the current path
TransitionTo_KeepsPath(newParams, target, loc, sel, pinned, org) ==
    LET q0 == Spread(GetEndpointParams(loc, sel, GetSavedSearch(loc, pinned)), newParams)
        q3 == SortFilter(ProjectFilter(Omit(q0, {"query"}), target, org), target, newParams)
    IN  IF Adopted(target)
        THEN [pathname |-> SearchPath(target.id), query |-> q3]
        ELSE [pathname |-> loc.pathname, query |-> q0]

\* the navigation target {pathname, query} transitionTo computes
TransitionTo(newParams, target, loc, sel, pinned, org) ==
    LET q0 == Spread(GetEndpointParams(loc, sel, GetSavedSearch(loc, pinned)), newParams)
        q1 == Omit(q0, {"query"})
        q2 == ProjectFilter(q1, target, org)
        q3 == SortFilter(q2, target, newParams)
    IN  IF Adopted(target)
        THEN [pathname |-> SearchPath(target.id), query |-> q3]
        ELSE [pathname |-> BasePath, query |-> q0]

\* a slip: nothing is pushed when the target is the current location
Navigate_SkipsUnchanged(target, loc) == IF target = loc THEN <<>> ELSE <<target>>

\* the browserHistory.push calls of one transitionTo
Navigate(target, loc) == <<target>>

----------------------------------------------------------------------------
(* Issue Query Service: pages and the Link header *)

\* a cursor is <<boundary, isPrev>>: the boundary before page `boundary`
ServerPage(params) ==
    IF ~Has(params, "cursor") THEN 0
    ELSE IF params.cursor[2] = 0 THEN params.cursor[1] ELSE params.cursor[1] - 1

\* parsed Link header of the response for page p
PageLinks(p) ==
    [previous |-> [cursor |-> <<p, 1>>, results |-> p > 0],
     next |-> [cursor |-> <<p + 1, 0>>, results |-> p < LastPage]]

\* the Link header of a response: well formed for page p, missing, or malformed
LinkHeader(p) ==
    [kind |-> "links", previous |-> PageLinks(p).previous, next |-> PageLinks(p).next]
MissingLinkHeader == [kind |-> "missing"]
MalformedLinkHeader == [kind |-> "malformed"]
LinkHeaders(p) == {LinkHeader(p), MissingLinkHeader, MalformedLinkHeader}

\* no further pages in either direction
NoLinks ==
    [previous |-> [cursor |-> <<0, 0>>, results |-> FALSE],
     next |-> [cursor |-> <<0, 0>>, results |-> FALSE]]

\* variant: a header that is not well formed still offers a next page
ParseLinkHeader_KeepsNext(header) ==
    IF header.kind = "links" THEN [previous |-> header.previous, next |-> header.next]
    ELSE [previous |-> NoLinks.previous, next |-> [cursor |-> <<1, 0>>, results |-> TRUE]]

\* {previous: {cursor, results}, next: {cursor, results}} of a Link header
ParseLinkHeader(header) ==
    IF header.kind = "links" THEN [previous |-> header.previous, next |-> header.next]
    ELSE NoLinks

DEFAULT_STATS_PERIOD == "14d"

\* parameters of the issues request fetchData sends for the current props
FetchParams(loc, sel, pinned) ==
    LET p0 == GetEndpointParams(loc, sel, GetSavedSearch(loc, pinned))
        p1 == IF Has(loc.query, "cursor")
              THEN Spread(p0, [cursor |-> loc.query.cursor]) ELSE p0
    IN  IF Has(p1, "statsPeriod") THEN p1
        ELSE Spread(p1, [statsPeriod |-> DEFAULT_STATS_PERIOD])

\* a response is adopted only when its request is the most recently initiated one
\* a slip: every response is adopted, whatever request it answers
ShouldAdopt_Always(req, latest) == TRUE

ShouldAdopt(req, latest) == latest # None /\ req.id = latest.id

----------------------------------------------------------------------------
(* Paging *)

\* newParams of the transition a click on previous / next makes
\* a slip: going back to the origin keeps the previous-cursor with page 0
CursorParams_OffByOne(loc, links, dir) ==
    LET delta == IF dir = "next" THEN 1 ELSE -1
        nextPage == IF Has(loc.query, "page") THEN loc.query.page + delta ELSE delta
    IN  IF nextPage < 0 THEN None
        ELSE [cursor |-> links[dir].cursor, page |-> nextPage]

CursorParams(loc, links, dir) ==
    LET delta == IF dir = "next" THEN 1 ELSE -1
        nextPage == IF Has(loc.query, "page") THEN loc.query.page + delta ELSE delta
    IN  IF nextPage <= 0 THEN None
        ELSE [cursor |-> links[dir].cursor, page |-> nextPage]

----------------------------------------------------------------------------
(* Pin / unpin toggle of the search bar *)

\* removes the space the search bar keeps at the end of its text
RemoveSpace(query) ==
    IF Len(query) > 0 /\ SubSeq(query, Len(query), Len(query)) = " "
    THEN SubSeq(query, 1, Len(query) - 1)
    ELSE query


\* const {cursor: _cursor, page: _page, ...currentQuery} = location.query
\* a slip: only the cursor is stripped
CurrentQuery_KeepsPage(loc) == Omit(loc.query, {"cursor"})

CurrentQuery(loc) == Omit(loc.query, {"cursor", "page"})

\* the opts.pinnedSearch of the action: the saved search in effect, when it is pinned
PinnedSearchOpt(loc, pinned) ==
    LET s == GetSavedSearch(loc, pinned)
    IN  IF s # None /\ s.isPinned THEN s ELSE None

\* the opts.sort of the action: the current issue sort
SortOpt(loc, pinned) ==
    LET s == ResolveSort(loc, GetSavedSearch(loc, pinned))
    IN  IF s # None THEN s.sort ELSE DEFAULT_SORT

\* the record the directory creates for pinSearch(query, sort)
PinRecord(query, sort) ==
    IF \E s \in SavedSearches : s.query = query /\ Has(s, "sort") /\ s.sort = sort
    THEN Spread(CHOOSE s \in SavedSearches : s.query = query /\ s.sort = sort,
                [isPinned |-> TRUE])
    ELSE [id |-> NewPinId, query |-> query, sort |-> sort, isPinned |-> TRUE]

\* what the PUT may answer: the record, a body without id, or no body
PinResponses(query, sort) ==
    {PinRecord(query, sort), Omit(PinRecord(query, sort), {"id"}), None}

\* pushes of the unpin branch once unpinSearch settles
\* a slip: the location's own query and sort win over the un-pinned search's
UnpinNavigation_LocationWins(call, outcome) ==
    IF outcome = "rejected" THEN <<>>
    ELSE << [pathname |-> BasePath,
             query |-> Spread(Pick(call.pinnedSearch, {"query", "sort"}),
                              CurrentQuery(call.location))] >>

\* a slip: the un-pinned search's sort is not carried
UnpinNavigation_NoSort(call, outcome) ==
    IF outcome = "rejected" THEN <<>>
    ELSE << [pathname |-> BasePath,
             query |-> Spread(Omit(CurrentQuery(call.location), {"query", "sort"}),
                              Pick(call.pinnedSearch, {"query"}))] >>

UnpinNavigation(call, outcome) ==
    IF outcome = "rejected" THEN <<>>
    ELSE << [pathname |-> BasePath,
             query |-> Spread(Omit(CurrentQuery(call.location), {"query", "sort"}),
                              Pick(call.pinnedSearch, {"query", "sort"}))] >>

\* pushes of the pin branch once pinSearch settles
\* a slip: a response without an identifier still navigates
PinNavigation_NoIdCheck(call, outcome, resp) ==
    IF outcome = "rejected" \/ resp = None THEN <<>>
    ELSE << [pathname |-> SearchPath(IF Has(resp, "id") THEN resp.id ELSE "undefined"),
             query |-> CurrentQuery(call.location)] >>

\* a slip: the whole location query is carried, pagination included
PinNavigation_WholeQuery(call, outcome, resp) ==
    IF outcome = "rejected" THEN <<>>
    ELSE IF resp = None \/ ~Has(resp, "id") THEN <<>>
    ELSE << [pathname |-> SearchPath(resp.id), query |-> call.location.query] >>

\* a slip: the location at the time the call settles is used
PinNavigation_CurrentLocation(call, outcome, resp) ==
    IF outcome = "rejected" THEN <<>>
    ELSE IF resp = None \/ ~Has(resp, "id") THEN <<>>
    ELSE << [pathname |-> SearchPath(resp.id), query |-> CurrentQuery(location)] >>

PinNavigation(call, outcome, resp) ==
    IF outcome = "rejected" THEN <<>>
    ELSE IF resp = None \/ ~Has(resp, "id") THEN <<>>
    ELSE << [pathname |-> SearchPath(resp.id), query |-> CurrentQuery(call.location)] >>

\* the directory's pinned record after a call settles
PinnedAfter(call, outcome, resp, pinned) ==
    IF outcome = "rejected" THEN pinned
    ELSE IF call.kind = "unpin" THEN None
    ELSE IF resp = None \/ ~Has(resp, "id") THEN pinned
    ELSE resp

----------------------------------------------------------------------------
(* Pagination caption *)

\* rows per page
MAX_ITEMS == 25

Min(a, b) == IF a <= b THEN a ELSE b
Max(a, b) == IF a >= b THEN a ELSE b

\* the page index in effect: the URL page, used only together with a cursor
PageIndex(loc) ==
    IF Has(loc.query, "cursor") /\ Has(loc.query, "page") THEN loc.query.page ELSE 0

\* variant: the page-based count is not limited by the issue count
ComputePaginationCaption_Unclamped(groupCount, queryCount, itemsRemoved, pageLinks, currentPageIndex) ==
    LET pageBasedCount == currentPageIndex * MAX_ITEMS + groupCount
        pageCount == IF ~pageLinks.next.results THEN queryCount
                     ELSE IF ~pageLinks.previous.results THEN groupCount
                     ELSE pageBasedCount
    IN  [shown |-> Max(pageCount - itemsRemoved, 0),
         total |-> Max(queryCount - itemsRemoved, 0)]

\* variant: the last available page is counted like any other page
ComputePaginationCaption_NoLastPage(groupCount, queryCount, itemsRemoved, pageLinks, currentPageIndex) ==
    LET pageBasedCount == currentPageIndex * MAX_ITEMS + groupCount
        pageCount == IF ~pageLinks.previous.results THEN groupCount
                     ELSE Min(pageBasedCount, queryCount)
    IN  [shown |-> Max(pageCount - itemsRemoved, 0),
         total |-> Max(queryCount - itemsRemoved, 0)]

\* variant: the first available page is counted by its page index
ComputePaginationCaption_NoFirstPage(groupCount, queryCount, itemsRemoved, pageLinks, currentPageIndex) ==
    LET pageBasedCount == currentPageIndex * MAX_ITEMS + groupCount
        pageCount == IF ~pageLinks.next.results THEN queryCount
                     ELSE Min(pageBasedCount, queryCount)
    IN  [shown |-> Max(pageCount - itemsRemoved, 0),
         total |-> Max(queryCount - itemsRemoved, 0)]

\* variant: removed items are taken off the total only
ComputePaginationCaption_KeepsRemoved(groupCount, queryCount, itemsRemoved, pageLinks, currentPageIndex) ==
    LET pageBasedCount == currentPageIndex * MAX_ITEMS + groupCount
        pageCount == IF ~pageLinks.next.results THEN queryCount
                     ELSE IF ~pageLinks.previous.results THEN groupCount
                     ELSE Min(pageBasedCount, queryCount)
    IN  [shown |-> pageCount,
         total |-> Max(queryCount - itemsRemoved, 0)]

\* "Showing {shown} of {total} issues"
ComputePaginationCaption(groupCount, queryCount, itemsRemoved, pageLinks, currentPageIndex) ==
    LET pageBasedCount == currentPageIndex * MAX_ITEMS + groupCount
        pageCount == IF ~pageLinks.next.results THEN queryCount
                     ELSE IF ~pageLinks.previous.results THEN groupCount
                     ELSE Min(pageBasedCount, queryCount)
    IN  [shown |-> Max(pageCount - itemsRemoved, 0),
         total |-> Max(queryCount - itemsRemoved, 0)]

\* previous / next result flags of a parsed Link header
LinkFlags ==
    {[previous |-> [results |-> p], next |-> [results |-> n]] : p, n \in BOOLEAN}

\* issue counts, numbers of removed items and of loaded rows the list can hold
QueryCounts == (0..MaxQueryCount) \cup {74, 75, 500}
RemovedCounts(queryCount) == {r \in (0..MaxRemoved) \cup {queryCount} : r <= queryCount}
GroupCounts(queryCount) == {g \in 0..MAX_ITEMS : g <= queryCount}

----------------------------------------------------------------------------
(* State machine *)

Event(e, nav, info) == [event |-> e, nav |-> nav, info |-> info]

\* the URL query the page filters put in the address bar
SelectionQuery(sel) ==
    IF sel.projects = <<>> THEN None
    ELSE [project |-> sel.projects, environment |-> sel.environments]

\* the issues request for the current props
CurrentRequest ==
    [loc |-> location, params |-> FetchParams(location, selection, pinnedSearch)]

\* what a request asks for, without its identity
Asked(req) == IF req = None THEN None ELSE [loc |-> req.loc, params |-> req.params]

\* the identity tokens that may still be compared: in flight, or the latest
LiveIds == {r.id : r \in requests \cup ({lastRequest} \ {None})}

\* a fresh identity token for a new request
NewRequestId == CHOOSE n \in 0..(MaxInFlight + 1) :
                    n \notin LiveIds /\ \A m \in 0..(MaxInFlight + 1) : m \notin LiveIds => n <= m

\* the page shows the response for the current props and nothing is in flight
Loaded == requests = {} /\ Asked(lastRequest) = CurrentRequest /\ adopted = lastRequest

\* none of the other components is mounted
InitWidgets ==
    /\ alertOptions = None
    /\ externalIssues = None
    /\ landing = None
    /\ gpuContext = None

InitRest ==
    /\ prePin = None
    /\ calls = {}
    /\ requests = {}
    /\ lastRequest = None
    /\ adopted = None
    /\ linkHeader = MissingLinkHeader
    /\ trail = 0
    /\ last = Event("init", <<>>, None)

\* the page is opened on the issues path, with or without a query in the URL
Init ==
    /\ selection = Selection123
    /\ organization \in Organizations
    /\ \E q \in {None, [query |-> "level:foo"]} :
          location = [pathname |-> BasePath, query |-> Spread(SelectionQuery(selection), q)]
    /\ pinnedSearch \in {None, PinnedSearch123}
    /\ list = None
    /\ InitWidgets
    /\ InitRest

\* the controller's state: Default, CustomQuery, SavedSearchSelected or
\* SavedSearchPinned
ControllerState(loc, pinned) ==
    LET savedSearch == GetSavedSearch(loc, pinned)
    IN  IF Has(loc.query, "query") /\ loc.query.query # "" THEN "CustomQuery"
        ELSE IF savedSearch = None THEN "Default"
        ELSE IF pinned # None /\ savedSearch = pinned THEN "SavedSearchPinned"
        ELSE "SavedSearchSelected"

\* onSearch: a query text is submitted in the search bar
OnSearch(text) ==
    LET target == TransitionTo([query |-> text], None, location, selection, pinnedSearch, organization)
    IN  /\ location' = target
        /\ trail' = 0
        /\ last' = Event("search", Navigate(target, location),
                         [query |-> text, paged |-> Has(location.query, "cursor"),
                          from |-> ControllerState(location, pinnedSearch)])
        /\ UNCHANGED <<widgets, list, linkHeader, selection, organization, pinnedSearch, prePin, calls, requests, lastRequest, adopted>>

\* onSavedSearchSelect: a saved search is chosen from the directory list
OnSavedSearchSelect(savedSearch) ==
    LET target == TransitionTo(None, savedSearch, location, selection, pinnedSearch, organization)
    IN  /\ location' = target
        /\ trail' = 0
        /\ last' = Event("select", Navigate(target, location),
                         [savedSearch |-> savedSearch,
                          paged |-> Has(location.query, "cursor")])
        /\ UNCHANGED <<widgets, list, linkHeader, selection, organization, pinnedSearch, prePin, calls, requests, lastRequest, adopted>>

\* onCursorChange: the previous / next button of the pagination is clicked
OnCursorChange(dir) ==
    /\ adopted # None
    /\ ParseLinkHeader(linkHeader)[dir].results
    /\ LET params == CursorParams(location, ParseLinkHeader(linkHeader), dir)
           target == TransitionTo(params, GetSavedSearch(location, pinnedSearch),
                                  location, selection, pinnedSearch, organization)
       IN  /\ params # None => params.page <= MaxPage
           /\ location' = target
           /\ trail' = IF dir = "next" THEN trail + 1 ELSE trail - 1
           /\ last' = Event("cursor", Navigate(target, location),
                            [dir |-> dir, from |-> trail,
                             paged |-> Has(location.query, "cursor"),
                             header |-> linkHeader])
    /\ UNCHANGED <<widgets, list, linkHeader, selection, organization, pinnedSearch, prePin, calls, requests, lastRequest, adopted>>

\* onTogglePinnedSearch up to the directory call: the pin button is clicked
OnTogglePinnedSearch(savedSearchType, query) ==
    LET opt == PinnedSearchOpt(location, pinnedSearch)
        call == IF opt # None
                THEN [kind |-> "unpin", location |-> location, pinnedSearch |-> opt,
                      prePin |-> prePin]
                ELSE [kind |-> "pin", location |-> location, query |-> query,
                      sort |-> SortOpt(location, pinnedSearch)]
    IN  /\ IF savedSearchType = "undefined"
           THEN /\ calls' = calls
                /\ last' = Event("toggleIgnored", <<>>, None)
           ELSE /\ Cardinality(calls) < MaxCalls
                /\ calls' = calls \cup {call}
                /\ last' = Event("toggle", <<>>, [kind |-> call.kind])
        /\ UNCHANGED <<widgets, list, linkHeader, location, selection, organization, pinnedSearch, prePin, requests,
                       lastRequest, adopted, trail>>

Settled(call, outcome, resp, nav) ==
    /\ calls' = calls \ {call}
    /\ pinnedSearch' = PinnedAfter(call, outcome, resp, pinnedSearch)
    /\ location' = IF nav = <<>> THEN location ELSE nav[1]
    /\ trail' = IF nav = <<>> THEN trail ELSE 0
    /\ last' = Event(call.kind, nav,
                     [call |-> call, outcome |-> outcome, resp |-> resp,
                      paged |-> Has(location.query, "cursor"),
                      before |-> [location |-> location, pinnedSearch |-> pinnedSearch]])
    /\ UNCHANGED <<widgets, list, linkHeader, selection, organization, requests, lastRequest, adopted>>

\* the rest of onTogglePinnedSearch: pinSearch settles
PinSettled(call, outcome, resp) ==
    /\ call \in calls
    /\ call.kind = "pin"
    /\ outcome = "rejected" => resp = None
    /\ Settled(call, outcome, resp, PinNavigation(call, outcome, resp))
    /\ prePin' = IF pinnedSearch' # pinnedSearch
                 THEN [query |-> call.query, sort |-> call.sort] ELSE prePin

\* the rest of onTogglePinnedSearch: unpinSearch settles
UnpinSettled(call, outcome) ==
    /\ call \in calls
    /\ call.kind = "unpin"
    /\ Settled(call, outcome, None, UnpinNavigation(call, outcome))
    /\ prePin' = IF outcome = "resolved" THEN None ELSE prePin

\* componentDidMount / componentDidUpdate: the props changed, the issues are fetched
FetchData ==
    /\ Cardinality(requests) < MaxInFlight
    /\ Asked(lastRequest) # CurrentRequest
    /\ LET req == Spread(CurrentRequest, [id |-> NewRequestId])
       IN  /\ requests' = requests \cup {req}
           /\ lastRequest' = req
    /\ last' = Event("fetch", <<>>, None)
    /\ UNCHANGED <<widgets, list, linkHeader, location, selection, organization, pinnedSearch, prePin, calls, adopted, trail>>

\* the response of an issues request arrives
FetchComplete(req, header) ==
    /\ req \in requests
    /\ requests' = requests \ {req}
    /\ adopted' = IF ShouldAdopt(req, lastRequest) THEN req ELSE adopted
    /\ linkHeader' = IF ShouldAdopt(req, lastRequest) THEN header ELSE linkHeader
    /\ last' = Event("response", <<>>,
                     [request |-> req, before |-> adopted, latest |-> lastRequest])
    /\ UNCHANGED <<widgets, list, location, selection, organization, pinnedSearch, prePin, calls, lastRequest, trail>>

Search == \E text \in QueryTexts : OnSearch(text)

Select == \E s \in SavedSearches \cup ({pinnedSearch} \ {None}) : OnSavedSearchSelect(s)

Page == \E dir \in {"previous", "next"} : OnCursorChange(dir)

Toggle ==
    \E t \in SavedSearchType :
      \E q \in {TypedText,
                ResolveEffectiveQuery(location, GetSavedSearch(location, pinnedSearch))} :
         OnTogglePinnedSearch(t, q)

PinDone ==
    \E call \in calls, outcome \in {"resolved", "rejected"} :
      \E resp \in {None} \cup (IF call.kind = "pin"
                               THEN PinResponses(RemoveSpace(call.query), call.sort)
                               ELSE {}) :
         PinSettled(call, outcome, resp)

UnpinDone == \E call \in calls, outcome \in {"resolved", "rejected"} : UnpinSettled(call, outcome)

Respond ==
    \E req \in requests :
      \E header \in LinkHeaders(ServerPage(req.params)) : FetchComplete(req, header)

\* nothing is pending: the page is loaded and no directory call is in flight
Idle == Loaded /\ calls = {}

\* a user session in which every click waits for the previous one to settle
Next ==
    \/ Idle /\ Search
    \/ Idle /\ Select
    \/ Idle /\ Page
    \/ Idle /\ Toggle
    \/ PinDone
    \/ UnpinDone
    \/ FetchData
    \/ Respond

Spec == Init /\ [][Next]_vars

\* fetches racing with query submissions: the user does not wait for the page to load
NextFetch ==
    \/ Search
    \/ FetchData
    \/ Respond

SpecFetch == Init /\ [][NextFetch]_vars

\* pin / unpin calls racing with saved-search selection: the user does not wait for
\* a call to settle; the page may have been opened on a later page of sorted results
InitPin ==
    /\ selection = Selection123
    /\ organization = OrgGlobalViews
    /\ \E q \in {None, [query |-> "level:foo"]},
          c \in {None, [sort |-> "freq", cursor |-> <<1, 0>>, page |-> 1]} :
          location = [pathname |-> BasePath,
                      query |-> Spread(Spread(SelectionQuery(selection), q), c)]
    /\ pinnedSearch \in {None, PinnedSearch123}
    /\ list = None
    /\ InitWidgets
    /\ InitRest

NextPin ==
    \/ Select
    \/ Toggle
    \/ PinDone
    \/ UnpinDone

SpecPin == InitPin /\ [][NextPin]_vars

\* query resolution on page load: any URL, any saved-search context
InitResolve ==
    /\ selection \in Selections
    /\ organization = OrgGlobalViews
    /\ pinnedSearch \in {None, PinnedSearch123, PinnedSearch666}
    /\ \E path \in {BasePath} \cup {SearchPath(id) : id \in {"789", "234", "123", "666"}},
          q \in {None, [query |-> ""], [query |-> "level:foo"]},
          s \in {None, [sort |-> "freq"]} :
          location = [pathname |-> path,
                      query |-> Spread(Spread(SelectionQuery(selection), q), s)]
    /\ list = None
    /\ InitWidgets
    /\ InitRest

NextResolve ==
    \/ FetchData
    \/ Respond

SpecResolve == InitResolve /\ [][NextResolve]_vars

\* instance.transitionTo(newParams, savedSearch) called directly
TransitionToCall(newParams, savedSearch) ==
    LET target == TransitionTo(newParams, savedSearch, location, selection, pinnedSearch,
                               organization)
        nav == Navigate(target, location)
    IN  /\ location' = IF nav = <<>> THEN location ELSE nav[1]
        /\ trail' = 0
        /\ last' = Event("transitionTo", nav,
                         [newParams |-> newParams, savedSearch |-> savedSearch,
                          pathname |-> location.pathname,
                          unchanged |-> (target = location),
                          paged |-> Has(location.query, "cursor")])
        /\ UNCHANGED <<widgets, list, linkHeader, selection, organization, pinnedSearch, prePin, calls, requests,
                       lastRequest, adopted>>

\* transitionTo as a function of its inputs: any overrides, any saved search, from
\* any location, selection and organization (no search is pinned)
InitTransition ==
    /\ selection \in Selections
    /\ organization \in Organizations
    /\ pinnedSearch = None
    /\ \E path \in {BasePath, SearchPath("789")},
          q \in {None, [query |-> "level:foo"]},
          s \in {None, [sort |-> "priority"]},
          c \in {None, [cursor |-> <<1, 0>>, page |-> 1]} :
          location = [pathname |-> path,
                      query |-> Spread(Spread(Spread(SelectionQuery(selection), q), s), c)]
    /\ list = None
    /\ InitWidgets
    /\ InitRest

\* instance.transitionTo(newParams, savedSearch) called twice in a row, before the
\* component receives the new location
TransitionToTwice(newParams, savedSearch) ==
    LET target == TransitionTo(newParams, savedSearch, location, selection, pinnedSearch,
                               organization)
        nav == Navigate(target, location) \o Navigate(target, location)
    IN  /\ location' = IF nav = <<>> THEN location ELSE nav[Len(nav)]
        /\ trail' = 0
        /\ last' = Event("transitionToTwice", nav,
                         [newParams |-> newParams, savedSearch |-> savedSearch,
                          pathname |-> location.pathname,
                          unchanged |-> (target = location),
                          paged |-> Has(location.query, "cursor")])
        /\ UNCHANGED <<widgets, list, linkHeader, selection, organization, pinnedSearch, prePin, calls, requests,
                       lastRequest, adopted>>

NextTransition ==
    \/ \E p \in Overrides, s \in TransitionTargets : TransitionToCall(p, s)
    \/ \E p \in Overrides, s \in TransitionTargets : TransitionToTwice(p, s)

SpecTransition == InitTransition /\ [][NextTransition]_vars

\* render: the pagination caption is computed from the list state and the URL page
RenderCaption ==
    /\ list # None
    /\ last' = Event("render", <<>>,
                     [caption |-> ComputePaginationCaption(
                                      list.groupCount, list.queryCount, list.itemsRemoved,
                                      list.pageLinks, PageIndex(location))])
    /\ UNCHANGED <<widgets, list, linkHeader, location, selection, organization, pinnedSearch, prePin, calls,
                   requests, lastRequest, adopted, trail>>

\* the list holds any response, with any number of items removed, on any page
InitCaption ==
    /\ selection = Selection123
    /\ organization = OrgBasic
    /\ pinnedSearch = None
    /\ \E c \in {None} \cup {[cursor |-> <<p, 0>>, page |-> p] : p \in 0..MaxPage} :
          location = [pathname |-> BasePath, query |-> Spread(SelectionQuery(selection), c)]
    /\ \E q \in QueryCounts :
          \E r \in RemovedCounts(q), g \in GroupCounts(q), links \in LinkFlags :
             list = [groupCount |-> g, queryCount |-> q, itemsRemoved |-> r,
                     pageLinks |-> links]
    /\ InitWidgets
    /\ InitRest

NextCaption == RenderCaption

SpecCaption == InitCaption /\ [][NextCaption]_vars

\* the issue list is left alone while another component is exercised
InitOverview ==
    /\ selection = Selection123
    /\ organization = OrgBasic
    /\ pinnedSearch = None
    /\ location = [pathname |-> BasePath, query |-> SelectionQuery(selection)]
    /\ list = None
    /\ InitRest

----------------------------------------------------------------------------
(* IssueAlertOptions *)

\* enum Actions, as the strings kept in state.alertSetting
ALERT_ON_EVERY_ISSUE == "0"
CUSTOMIZED_ALERTS == "1"
CREATE_ALERT_LATER == "2"

UNIQUE_USER_FREQUENCY_CONDITION ==
    "sentry.rules.conditions.event_frequency.EventUniqueUserFrequencyCondition"
EVENT_FREQUENCY_CONDITION ==
    "sentry.rules.conditions.event_frequency.EventFrequencyCondition"
EVENT_FREQUENCY_PERCENT_CONDITION ==
    "sentry.rules.conditions.event_frequency.EventFrequencyPercentCondition"

\* METRIC_CONDITION_MAP, keyed by MetricValues
METRIC_CONDITION_MAP ==
    [ERRORS |-> EVENT_FREQUENCY_CONDITION, USERS |-> UNIQUE_USER_FREQUENCY_CONDITION]

MetricConditionIds == {METRIC_CONDITION_MAP[m] : m \in DOMAIN METRIC_CONDITION_MAP}

\* interval choices a condition's form field can carry.  A value that may be
\* undefined is a sequence of at most one element: <<>> is undefined / null.
ChoicesMinutes == << <<"1m", "one minute">>, <<"1h", "one hour">> >>
ChoicesHours == << <<"1h", "one hour">> >>
ChoicesOpt == {<<>>, << <<>> >>, <<ChoicesMinutes>>, <<ChoicesHours>>}

\* conditions the rule-conditions endpoint can return:
\* {id, formFields?: {interval?: {choices}}}
RuleConditions ==
    {[id |-> i, choices |-> c] :
        i \in {EVENT_FREQUENCY_CONDITION, UNIQUE_USER_FREQUENCY_CONDITION,
               EVENT_FREQUENCY_PERCENT_CONDITION},
        c \in ChoicesOpt}

RECURSIVE SeqsUpTo(_, _)
SeqsUpTo(S, n) ==
    IF n = 0 THEN {<<>>}
    ELSE LET shorter == SeqsUpTo(S, n - 1)
         IN  shorter \cup {Append(q, x) : q \in shorter, x \in S}

RuleConditionsResponses == SeqsUpTo(RuleConditions, MaxConditions)

RECURSIVE FilterMetricConditions(_)
\* conditions.filter(object => Object.values(METRIC_CONDITION_MAP).includes(object.id))
FilterMetricConditions(conditions) ==
    IF conditions = <<>> THEN <<>>
    ELSE LET rest == FilterMetricConditions(Tail(conditions))
         IN  IF Head(conditions).id \in MetricConditionIds
             THEN <<Head(conditions)>> \o rest ELSE rest

equalityReducer(acc, curr) ==
    IF acc = <<>> \/ curr = <<>> \/ acc # curr THEN <<>> ELSE acc

RECURSIVE ReduceChoices(_, _)
\* Array.prototype.reduce(equalityReducer) from an accumulator on
ReduceChoices(acc, conditions) ==
    IF conditions = <<>> THEN acc
    ELSE ReduceChoices(equalityReducer(acc, Head(conditions).choices), Tail(conditions))

\* {intervalChoices, interval} of a non-empty list of conditions
unpackConditions(conditions) ==
    LET intervalChoices == ReduceChoices(Head(conditions).choices, Tail(conditions))
    IN  [intervalChoices |-> intervalChoices,
         interval |-> IF intervalChoices # <<>> /\ Len(intervalChoices[1]) > 0
                      THEN <<intervalChoices[1][1][1]>> ELSE <<>>]

getDefaultState ==
    [loading |-> TRUE,
     conditions |-> << <<>> >>,
     intervalChoices |-> << <<>> >>,
     alertSetting |-> CREATE_ALERT_LATER,
     metric |-> "ERRORS",
     interval |-> "",
     threshold |-> "",
     metricAlertPresets |-> {}]

getConditionFrom(interval, metricValue, threshold) ==
    [interval |-> interval, id |-> METRIC_CONDITION_MAP[metricValue], value |-> threshold]

\* variant: the two flags are derived independently
getUpdatedData_BothFlags(state) ==
    [defaultRules |-> state.alertSetting # CREATE_ALERT_LATER,
     shouldCreateCustomRule |-> state.alertSetting = CUSTOMIZED_ALERTS,
     conditions |-> IF Len(state.interval) > 0 /\ Len(state.threshold) > 0
                    THEN << <<getConditionFrom(state.interval, state.metric, state.threshold)>> >>
                    ELSE <<>>,
     metricAlertPresets |-> state.metricAlertPresets]

\* the RequestDataFragment reported to the parent (its constant fields left out)
getUpdatedData(state) ==
    [defaultRules |-> state.alertSetting = ALERT_ON_EVERY_ISSUE,
     shouldCreateCustomRule |-> state.alertSetting = CUSTOMIZED_ALERTS,
     conditions |-> IF Len(state.interval) > 0 /\ Len(state.threshold) > 0
                    THEN << <<getConditionFrom(state.interval, state.metric, state.threshold)>> >>
                    ELSE <<>>,
     metricAlertPresets |-> state.metricAlertPresets]

\* renderBody: this.state.conditions?.length > 0
hasProperlyLoadedConditions(state) ==
    state.conditions # <<>> /\ Len(state.conditions[1]) > 0

getIssueAlertsChoices(state) ==
    {CREATE_ALERT_LATER, ALERT_ON_EVERY_ISSUE}
        \cup (IF hasProperlyLoadedConditions(state) THEN {CUSTOMIZED_ALERTS} ELSE {})

getAvailableMetricOptions(state) ==
    {m \in DOMAIN METRIC_CONDITION_MAP :
        state.conditions # <<>> /\
        \E i \in DOMAIN state.conditions[1] : state.conditions[1][i].id = METRIC_CONDITION_MAP[m]}

\* variant: the loaded conditions are kept whatever their interval choices
onLoadAllEndpointsSuccess_KeepsConditions(state) ==
    LET conditions == FilterMetricConditions(state.conditions[1])
    IN  IF conditions = <<>> THEN Spread(state, [conditions |-> <<>>])
        ELSE Spread(state, [conditions |-> <<conditions>>])

\* the state after onLoadAllEndpointsSuccess
onLoadAllEndpointsSuccess(state) ==
    LET conditions == FilterMetricConditions(state.conditions[1])
        unpacked == unpackConditions(conditions)
    IN  IF conditions = <<>> THEN Spread(state, [conditions |-> <<>>])
        ELSE IF unpacked.intervalChoices = <<>> \/ unpacked.interval = <<>> \/ unpacked.interval = <<"">>
             THEN Spread(state, [conditions |-> <<>>])
             ELSE Spread(state, [conditions |-> <<conditions>>,
                                 intervalChoices |-> unpacked.intervalChoices,
                                 interval |-> unpacked.interval[1]])

\* setStateAndUpdateParents: the state is set, then the parent is told
setStateAndUpdateParents(state, e, info) ==
    /\ alertOptions' = state
    /\ last' = Event(e, <<>>, Spread(info, [data |-> getUpdatedData(state)]))
    /\ UNCHANGED <<overview, externalIssues, landing, gpuContext>>

\* the rule-conditions endpoint answers: AsyncComponent stores the response
\* and calls onLoadAllEndpointsSuccess
ConditionsLoaded(response) ==
    /\ alertOptions # None
    /\ alertOptions.loading
    /\ setStateAndUpdateParents(
          onLoadAllEndpointsSuccess(
              Spread(alertOptions, [loading |-> FALSE, conditions |-> <<response>>])),
          "conditionsLoaded", [response |-> response])

\* the radio group changes, or the customized-alerts grid is clicked
AlertSettingChanged(alertSetting) ==
    /\ alertOptions # None
    /\ ~alertOptions.loading
    /\ alertSetting \in getIssueAlertsChoices(alertOptions)
    /\ setStateAndUpdateParents(Spread(alertOptions, [alertSetting |-> alertSetting]),
                                "alertSetting", None)

\* the threshold input of the customized-alerts grid changes
ThresholdChanged(threshold) ==
    /\ alertOptions # None
    /\ ~alertOptions.loading
    /\ hasProperlyLoadedConditions(alertOptions)
    /\ setStateAndUpdateParents(Spread(alertOptions, [threshold |-> threshold]),
                                "threshold", None)

\* the metric select of the customized-alerts grid changes
MetricChanged(metric) ==
    /\ alertOptions # None
    /\ ~alertOptions.loading
    /\ hasProperlyLoadedConditions(alertOptions)
    /\ metric \in getAvailableMetricOptions(alertOptions)
    /\ setStateAndUpdateParents(Spread(alertOptions, [metric |-> metric]), "metric", None)

\* the interval select of the customized-alerts grid changes
IntervalChanged(i) ==
    /\ alertOptions # None
    /\ ~alertOptions.loading
    /\ hasProperlyLoadedConditions(alertOptions)
    /\ i \in DOMAIN alertOptions.intervalChoices[1]
    /\ setStateAndUpdateParents(
          Spread(alertOptions, [interval |-> alertOptions.intervalChoices[1][i][1]]),
          "interval", None)

\* a performance alert preset is ticked or unticked
MetricAlertPresetClicked(selectedItem) ==
    /\ alertOptions # None
    /\ ~alertOptions.loading
    /\ setStateAndUpdateParents(
          Spread(alertOptions,
                 [metricAlertPresets |->
                    IF selectedItem \in alertOptions.metricAlertPresets
                    THEN alertOptions.metricAlertPresets \ {selectedItem}
                    ELSE alertOptions.metricAlertPresets \cup {selectedItem}]),
          "metricAlertPreset", None)

\* thresholds typed into the input, and the presets on offer
Thresholds == {"", "10"}
Presets == {"p95"}

InitAlertOptions ==
    /\ InitOverview
    /\ alertOptions = getDefaultState
    /\ externalIssues = None
    /\ landing = None
    /\ gpuContext = None

NextAlertOptions ==
    \/ \E response \in RuleConditionsResponses : ConditionsLoaded(response)
    \/ \E a \in {ALERT_ON_EVERY_ISSUE, CUSTOMIZED_ALERTS, CREATE_ALERT_LATER} :
          AlertSettingChanged(a)
    \/ \E threshold \in Thresholds : ThresholdChanged(threshold)
    \/ \E metric \in DOMAIN METRIC_CONDITION_MAP : MetricChanged(metric)
    \/ \E i \in DOMAIN ChoicesMinutes : IntervalChanged(i)
    \/ \E selectedItem \in Presets : MetricAlertPresetClicked(selectedItem)

SpecAlertOptions == InitAlertOptions /\ [][NextAlertOptions]_vars

----------------------------------------------------------------------------
(* ExternalIssueList *)

\* sentry app components of the store, installations by app uuid, group
\* integrations, plugin issues and plugin actions of the group.  A list that
\* may be undefined is <<>> when undefined / null and <<l>> when it is l.
SentryAppComponents ==
    {[type |-> ty, sentryApp |-> app] :
        ty \in {"issue-link", "stacktrace-link"}, app \in {"clubhouse", "rookout"}}
SentryAppInstallations == SUBSET {"clubhouse", "rookout"}
GroupIntegrations ==
    {[status |-> "active", provider |-> "github"],
     [status |-> "disabled", provider |-> "github"],
     [status |-> "active", provider |-> "jira"]}
PluginLists == {<<>>, << <<>> >>, << <<"trello">> >>}

RECURSIVE FilterIssueLinks(_)
\* sentryAppComponents.filter(c => c.type === 'issue-link')
FilterIssueLinks(components) ==
    IF components = <<>> THEN <<>>
    ELSE LET rest == FilterIssueLinks(Tail(components))
         IN  IF Head(components).type = "issue-link"
             THEN <<Head(components)>> \o rest ELSE rest

\* null, or one entry per component: the action of its app, or null when
\* the app has no installation
renderSentryAppIssues(state) ==
    IF Len(state.components) = 0 THEN <<>>
    ELSE << [i \in DOMAIN state.components |->
               IF state.components[i].sentryApp \in state.sentryAppInstallations
               THEN <<state.components[i].sentryApp>> ELSE <<>>] >>

\* null, or the providers of the active integrations
renderIntegrationIssues(integrations) ==
    LET all == IF integrations = <<>> THEN <<>> ELSE integrations[1]
        activeProviders == {all[i].provider : i \in {j \in DOMAIN all : all[j].status = "active"}}
    IN  IF activeProviders = {} THEN <<>> ELSE <<activeProviders>>

\* null, or the plugin entries of the group
renderPluginIssues(group) ==
    IF group.pluginIssues # <<>> /\ Len(group.pluginIssues[1]) > 0
    THEN group.pluginIssues ELSE <<>>

renderPluginActions(group) ==
    IF group.pluginActions # <<>> /\ Len(group.pluginActions[1]) > 0
    THEN group.pluginActions ELSE <<>>

\* renderBody: the four sections and whether the setup link is shown
renderBody(x) ==
    LET sentryAppIssues == renderSentryAppIssues(x.state)
        integrationIssues == renderIntegrationIssues(x.state.integrations)
        pluginIssues == renderPluginIssues(x.group)
        pluginActions == renderPluginActions(x.group)
    IN  [showSetup |-> /\ sentryAppIssues = <<>> /\ integrationIssues = <<>>
                       /\ pluginIssues = <<>> /\ pluginActions = <<>>,
         sentryAppIssues |-> sentryAppIssues,
         integrationIssues |-> integrationIssues,
         pluginIssues |-> pluginIssues,
         pluginActions |-> pluginActions]

SetExternalIssuesState(partial) ==
    /\ externalIssues # None
    /\ externalIssues' = [externalIssues EXCEPT !.state = Spread(@, partial)]
    /\ UNCHANGED <<overview, alertOptions, landing, gpuContext, last>>

\* the integrations endpoint of the component has loaded
IntegrationsLoaded(integrations) ==
    /\ externalIssues # None
    /\ externalIssues.state.loading
    /\ SetExternalIssuesState([loading |-> FALSE, integrations |-> <<integrations>>])

\* updateIntegrations: the integrations are fetched again
updateIntegrations(integrations) ==
    /\ externalIssues # None
    /\ ~externalIssues.state.loading
    /\ SetExternalIssuesState([integrations |-> <<integrations>>])

onSentryAppInstallationChange(sentryAppInstallations) ==
    SetExternalIssuesState([sentryAppInstallations |-> sentryAppInstallations])

onSentryAppComponentsChange(sentryAppComponents) ==
    SetExternalIssuesState([components |-> FilterIssueLinks(sentryAppComponents)])

\* the component is constructed with what the stores hold
InitExternalIssues ==
    /\ InitOverview
    /\ \E components \in SeqsUpTo(SentryAppComponents, MaxListed),
          installations \in SentryAppInstallations,
          pluginIssues \in PluginLists, pluginActions \in PluginLists :
          externalIssues =
              [state |-> [loading |-> TRUE,
                          components |-> components,
                          sentryAppInstallations |-> installations,
                          integrations |-> <<>>],
               group |-> [pluginIssues |-> pluginIssues, pluginActions |-> pluginActions]]
    /\ alertOptions = None
    /\ landing = None
    /\ gpuContext = None

NextExternalIssues ==
    \/ \E l \in SeqsUpTo(GroupIntegrations, MaxListed) : IntegrationsLoaded(l)
    \/ \E l \in SeqsUpTo(GroupIntegrations, MaxListed) : updateIntegrations(l)
    \/ \E i \in SentryAppInstallations : onSentryAppInstallationChange(i)
    \/ \E l \in SeqsUpTo(SentryAppComponents, MaxListed) : onSentryAppComponentsChange(l)

SpecExternalIssues == InitExternalIssues /\ [][NextExternalIssues]_vars

----------------------------------------------------------------------------
(* PerformanceLanding *)

\* project ids of eventView.project and how they print
ProjectIds == {1, 2, 12}
IdText == [i \in ProjectIds |-> CASE i = 1 -> "1" [] i = 2 -> "2" [] i = 12 -> "12"]

RECURSIVE JoinIds(_, _)
\* Array.prototype.join(separator)
JoinIds(ids, separator) ==
    IF ids = <<>> THEN ""
    ELSE IF Len(ids) = 1 THEN IdText[ids[1]]
    ELSE IdText[ids[1]] \o separator \o JoinIds(Tail(ids), separator)

\* the dependency of the first effect: eventView.project.join('.')
ProjectKey(project) == JoinIds(project, ".")

\* locations the landing page is rendered with
LandingLocations ==
    {[pathname |-> "/organizations/org-slug/performance/", query |-> q] :
        q \in {None,
               [landingDisplay |-> "frontend_pageload"],
               [landingDisplay |-> "backend", query |-> "transaction:foo"],
               [query |-> "transaction:foo"]}}

\* a slip: the history replace is issued on the initial mount as well
ClearLandingDisplay_OnMount(hasMounted, loc) ==
    << [pathname |-> loc.pathname, query |-> Omit(loc.query, {"landingDisplay"})] >>

\* the body of the first effect: the history replaces it issues
ClearLandingDisplay(hasMounted, loc) ==
    IF hasMounted
    THEN << [pathname |-> loc.pathname, query |-> Omit(loc.query, {"landingDisplay"})] >>
    ELSE <<>>

\* the component is mounted: first render, then both effects in order
MountLanding(project, loc) ==
    /\ landing # None
    /\ ~landing.mounted
    /\ LET nav == ClearLandingDisplay(landing.hasMounted, loc)
       IN  /\ landing' = [mounted |-> TRUE, hasMounted |-> TRUE, project |-> project,
                          key |-> ProjectKey(project),
                          location |-> IF nav = <<>> THEN loc ELSE nav[1]]
           /\ last' = Event("mount", nav, [project |-> project, location |-> loc])
    /\ UNCHANGED <<overview, alertOptions, externalIssues, gpuContext>>

\* the component renders again: the first effect runs when its dependency
\* differs from the one of the previous render
RenderLanding(project, loc) ==
    /\ landing # None
    /\ landing.mounted
    /\ LET nav == IF ProjectKey(project) # landing.key
                  THEN ClearLandingDisplay(landing.hasMounted, loc) ELSE <<>>
       IN  /\ landing' = [landing EXCEPT !.project = project,
                                         !.key = ProjectKey(project),
                                         !.location = IF nav = <<>> THEN loc ELSE nav[1]]
           /\ last' = Event("landingRender", nav,
                            [project |-> project, previous |-> landing.project,
                             location |-> loc])
    /\ UNCHANGED <<overview, alertOptions, externalIssues, gpuContext>>

InitLanding ==
    /\ InitOverview
    /\ landing = [mounted |-> FALSE, hasMounted |-> FALSE, project |-> <<>>,
                  key |-> "", location |-> None]
    /\ alertOptions = None
    /\ externalIssues = None
    /\ gpuContext = None

NextLanding ==
    \/ \E project \in SeqsUpTo(ProjectIds, MaxSelected), loc \in LandingLocations :
          MountLanding(project, loc)
    \/ \E project \in SeqsUpTo(ProjectIds, MaxSelected), loc \in LandingLocations :
          RenderLanding(project, loc)

SpecLanding == InitLanding /\ [][NextLanding]_vars

----------------------------------------------------------------------------
(* GPUEventContext *)

\* the module-level array gpuKnownDataValues as initialised, by the keys the
\* GPUKnownDataType members stand for
gpuKnownDataValuesInitial ==
    <<"name", "version", "vendor_name", "memory", "npot_support",
      "multi_threaded_rendering", "api_type">>

gpuIgnoredDataValues == <<>>

\* the array after `array.unshift[type]`: a property of the unshift function
\* is read and dropped, nothing is called, the array is what it was
UnshiftIndexed(array, type) == array

\* the elements of an array
Elements(array) == {array[i] : i \in DOMAIN array}

\* getUnknownData: the keys of the data that are not known keys
getUnknownData(allData, knownKeys) == DOMAIN allData \ Elements(knownKeys)

\* GPUEventContext: the array after the two conditional statements
GPUKnownDataTypes(array, data) ==
    LET a1 == IF data.vendor_id > 0 THEN UnshiftIndexed(array, "vendor_id") ELSE array
    IN  IF data.id > 0 THEN UnshiftIndexed(a1, "id") ELSE a1

\* GPU context data: id and vendor_id, with or without a name, a version and
\* a key that is not a known type
GPUDatas ==
    {Spread([id |-> i, vendor_id |-> v], Spread(n, Spread(w, x))) :
        i \in -1..MaxGpuId, v \in -1..MaxGpuId,
        n \in {None, [name |-> "GPU"]}, w \in {None, [version |-> "1.0"]},
        x \in {None, [graphics_shader_level |-> "5"]}}

\* GPUEventContext renders data
RenderGPU(data) ==
    /\ gpuContext # None
    /\ LET known == GPUKnownDataTypes(gpuContext.gpuKnownDataValues, data)
       IN  /\ gpuContext' = [gpuKnownDataValues |-> known]
           /\ last' = Event("gpu", <<>>,
                            [data |-> data,
                             knownDataTypes |-> known,
                             unknownKeys |-> getUnknownData(data, known \o gpuIgnoredDataValues)])
    /\ UNCHANGED <<overview, alertOptions, externalIssues, landing>>

InitGPU ==
    /\ InitOverview
    /\ gpuContext = [gpuKnownDataValues |-> gpuKnownDataValuesInitial]
    /\ alertOptions = None
    /\ externalIssues = None
    /\ landing = None

NextGPU == \E data \in GPUDatas : RenderGPU(data)

SpecGPU == InitGPU /\ [][NextGPU]_vars

----------------------------------------------------------------------------
(* Properties *)

\* the URL query text of a location, "" when the key is absent
UrlQuery(loc) == IF Has(loc.query, "query") THEN loc.query.query ELSE ""

\* every navigation target of the last step and the location itself
NavTargets == {last.nav[i] : i \in DOMAIN last.nav} \cup {location}

\* C1: when the URL carries a non-empty query text, every issues request is
\* issued with exactly that text as its query, and the search bar shows it,
\* whatever saved search is selected or pinned.
C1_UrlQueryVerbatim ==
    /\ \A r \in requests :
          UrlQuery(r.loc) # "" => r.params.query = UrlQuery(r.loc)
    /\ UrlQuery(location) # "" =>
          ResolveEffectiveQuery(location, GetSavedSearch(location, pinnedSearch))
              = UrlQuery(location)

\* a request is in flight for a URL with a query text on a saved-search path
\* whose stored query differs, while another search is pinned
C1_Witness ==
    \E r \in requests :
        /\ UrlQuery(r.loc) = "level:foo"
        /\ r.loc.pathname = SearchPath("789")
        /\ pinnedSearch = PinnedSearch123
        /\ r.params.query = "level:foo"

C3_SearchResetsPagination ==
    last.event = "search" =>
        /\ Len(last.nav) = 1
        /\ ~Has(last.nav[1].query, "cursor")
        /\ ~Has(last.nav[1].query, "page")

\* a query was submitted from a page of results reached by paging
C3_Witness ==
    /\ last.event = "search"
    /\ last.info.paged
    /\ ~Has(location.query, "cursor")

\* C4: paging back to where paging started clears the pagination: the
\* navigation carries neither a cursor nor a page.
C4_PreviousToOriginClears ==
    (last.event = "cursor" /\ last.info.dir = "previous" /\ trail = 0) =>
        /\ Len(last.nav) = 1
        /\ ~Has(last.nav[1].query, "cursor")
        /\ ~Has(last.nav[1].query, "page")

\* "previous" was clicked on the second page and led back to the first
C4_Witness ==
    /\ last.event = "cursor"
    /\ last.info.dir = "previous"
    /\ trail = 0
    /\ last.info.from = 1
    /\ ~Has(location.query, "cursor")

\* C5: in every navigation target, and so in every location, the page is
\* undefined whenever the cursor is undefined.
C5_NoPageWithoutCursor ==
    \A t \in NavTargets : ~Has(t.query, "cursor") => ~Has(t.query, "page")

\* a navigation left a paged location for one without cursor and page
C5_Witness ==
    /\ last.event \in {"search", "select", "cursor", "pin", "unpin"}
    /\ Len(last.nav) = 1
    /\ last.info.paged
    /\ ~Has(location.query, "cursor")
    /\ ~Has(location.query, "page")

PinFailed ==
    /\ last.event = "pin"
    /\ \/ last.info.outcome = "rejected"
       \/ last.info.resp = None
       \/ ~Has(last.info.resp, "id")

PinSucceeded == last.event = "pin" /\ ~PinFailed

UnpinFailed == last.event = "unpin" /\ last.info.outcome = "rejected"

UnpinSucceeded == last.event = "unpin" /\ last.info.outcome = "resolved"

\* C7: when the pin call rejects or resolves without an identifier, or the
\* unpin call rejects, no navigation is issued and the location and the
\* pinned search are what they were.
C7_FailureKeepsState ==
    (PinFailed \/ UnpinFailed) =>
        /\ last.nav = <<>>
        /\ location = last.info.before.location
        /\ pinnedSearch = last.info.before.pinnedSearch

\* a pin call resolved with a record that has no identifier
C7_Witness ==
    /\ PinFailed
    /\ last.info.outcome = "resolved"
    /\ last.info.resp # None
    /\ last.nav = <<>>

\* C8: a successful pin pushes exactly one navigation, to the saved-search
\* path of the returned id, whose query is the query of the location the pin
\* was clicked on without cursor and page and with every other parameter.
C8_PinNavigates ==
    PinSucceeded =>
        /\ Len(last.nav) = 1
        /\ last.nav[1].pathname = SearchPath(last.info.resp.id)
        /\ ~Has(last.nav[1].query, "cursor")
        /\ ~Has(last.nav[1].query, "page")
        /\ \A k \in (DOMAIN last.info.call.location.query) \ {"cursor", "page"} :
              Has(last.nav[1].query, k)
        /\ \A k \in DOMAIN last.nav[1].query :
              /\ Has(last.info.call.location.query, k)
              /\ last.nav[1].query[k] = last.info.call.location.query[k]

\* a pin clicked on a later page of a custom query succeeded
C8_Witness ==
    /\ PinSucceeded
    /\ Has(last.info.call.location.query, "cursor")
    /\ Has(last.info.call.location.query, "query")
    /\ Has(location.query, "project")
    /\ location.pathname = SearchPath(NewPinId)

\* C9: a successful unpin pushes exactly one navigation, to the base path,
\* whose query and sort are the un-pinned search's own, without cursor and
\* page, and with the other parameters of the location it was clicked on.
C9_UnpinNavigates ==
    UnpinSucceeded =>
        /\ Len(last.nav) = 1
        /\ last.nav[1].pathname = BasePath
        /\ Pick(last.nav[1].query, {"query", "sort"})
              = Pick(last.info.call.pinnedSearch, {"query", "sort"})
        /\ ~Has(last.nav[1].query, "cursor")
        /\ ~Has(last.nav[1].query, "page")
        /\ Omit(last.nav[1].query, {"query", "sort"})
              = Omit(last.info.call.location.query, {"query", "sort", "cursor", "page"})

\* an unpin clicked on a later page of results with a sort and a project of
\* their own succeeded
C9_Witness ==
    /\ UnpinSucceeded
    /\ Has(last.info.call.location.query, "cursor")
    /\ Has(last.info.call.location.query, "sort")
    /\ location.query.query = last.info.call.pinnedSearch.query
    /\ Has(location.query, "project")

\* the last step is the successful unpin of a search this session pinned
RoundTrip == UnpinSucceeded /\ last.info.call.prePin # None

AdoptedSearch == last.event = "transitionTo" /\ Adopted(last.info.savedSearch)

\* the navigation of the last step carries a project filter
NavHasProject == Len(last.nav) = 1 /\ Has(last.nav[1].query, "project")

\* the project list of the navigation of the last step, <<-1>> if it has none
NavProject == IF NavHasProject THEN last.nav[1].query.project ELSE <<-1>>

HasGlobalViews == "global-views" \in organization.features

\* C11: when transitionTo adopts a saved search without a project and the
\* organization lacks the global-views feature, the navigation's project list
\* is the current project selection.
C11_SelectionRetained ==
    (AdoptedSearch /\ ~Has(last.info.savedSearch, "projectId") /\ ~HasGlobalViews) =>
        NavProject = selection.projects

\* a project-less saved search was adopted without overrides by an
\* organization without global-views, with project 99 selected
C11_Witness ==
    /\ AdoptedSearch
    /\ last.info.savedSearch = Search123
    /\ last.info.newParams = None
    /\ ~HasGlobalViews
    /\ selection = Selection99
    /\ location.query.project = <<99>>

\* C12 as stated: an adopted saved search with a project gives the project
\* list [projectId], whatever the overrides.
C12_SearchProjectAlways ==
    (AdoptedSearch /\ Has(last.info.savedSearch, "projectId")) =>
        NavProject = <<last.info.savedSearch.projectId>>

\* C12: an adopted saved search with a project gives the project list
\* [projectId], whatever the selection and whatever overrides other than a
\* cursor are passed.
C12_SearchProject ==
    (/\ AdoptedSearch
     /\ Has(last.info.savedSearch, "projectId")
     /\ ~Has(last.info.newParams, "cursor")) =>
        NavProject = <<last.info.savedSearch.projectId>>

\* a saved search of project 999 was adopted with a query override while
\* another project was selected
C12_Witness ==
    /\ AdoptedSearch
    /\ last.info.savedSearch = Search123Project
    /\ Has(last.info.newParams, "query")
    /\ selection.projects # <<999>>
    /\ location.query.project = <<999>>

\* C13: with a cursor override the navigation keeps the current project
\* selection, also when the saved search has a project of its own.
C13_PagingKeepsSelection ==
    (last.event = "transitionTo" /\ Has(last.info.newParams, "cursor")) =>
        NavProject = selection.projects

\* another page of a saved search of project 999 was asked for while project
\* 123 was selected
C13_Witness ==
    /\ AdoptedSearch
    /\ last.info.savedSearch = Search123Project
    /\ Has(last.info.newParams, "cursor")
    /\ selection = Selection123
    /\ location.query.project = <<123>>
    /\ Has(location.query, "cursor")

\* C14 as stated: when a saved search without a project is adopted and the
\* organization has global-views, the navigation has no project filter.
C14_AllProjects ==
    (AdoptedSearch /\ ~Has(last.info.savedSearch, "projectId") /\ HasGlobalViews) =>
        ~NavHasProject

\* C15: the pathname transitionTo navigates to is the saved-search path of the
\* adopted search exactly when a saved search with an id is adopted, and the
\* base path otherwise; a query submitted while a saved search is active (no
\* search handed over) goes to the base path.
C15_Pathname ==
    last.event = "transitionTo" =>
        /\ Len(last.nav) = 1
        /\ Adopted(last.info.savedSearch) =>
              last.nav[1].pathname = SearchPath(last.info.savedSearch.id)
        /\ ~Adopted(last.info.savedSearch) => last.nav[1].pathname = BasePath

\* a custom query was submitted from the path of saved search 789
C15_Witness ==
    /\ last.event = "transitionTo"
    /\ last.info.pathname = SearchPath("789")
    /\ last.info.savedSearch = None
    /\ Has(last.info.newParams, "query")
    /\ location.pathname = BasePath
    /\ location.query.query = "is:ignored"

SortByPrecedence(loc) ==
    LET savedSearch == GetSavedSearch(loc, pinnedSearch)
    IN  IF Has(loc.query, "sort") THEN <<loc.query.sort>>
        ELSE IF savedSearch # None /\ Has(savedSearch, "sort") THEN <<savedSearch.sort>>
        ELSE <<>>

\* C17: the sort in effect is the URL sort if there is one, else the selected
\* saved search's sort, else undefined; an issues request carries it, left
\* out when it is the default sort.
C17_SortPrecedence ==
    \A r \in requests :
        LET expected == SortByPrecedence(r.loc)
            resolved == ResolveSort(r.loc, GetSavedSearch(r.loc, pinnedSearch))
        IN  /\ resolved = IF expected = <<>> THEN None ELSE [sort |-> expected[1]]
            /\ Pick(r.params, {"sort"}) =
                  IF expected = <<>> \/ expected[1] = DEFAULT_SORT THEN None
                  ELSE [sort |-> expected[1]]

\* a request is in flight for a URL with a sort while the pinned search in
\* effect has another sort: the URL sort is asked for
C17_Witness ==
    \E r \in requests :
        /\ GetSavedSearch(r.loc, pinnedSearch) = PinnedSearch666
        /\ Has(r.loc.query, "sort")
        /\ r.loc.query.sort # PinnedSearch666.sort
        /\ r.params.sort = r.loc.query.sort

\* the caption was rendered; what it shows
Rendered == last.event = "render"
Caption == last.info.caption
AdjustedTotal == list.queryCount - list.itemsRemoved

C19_LastPageShowsTotal ==
    (Rendered /\ ~list.pageLinks.next.results /\ PageIndex(location) # 0) =>
        /\ Caption.shown = AdjustedTotal
        /\ Caption.total = AdjustedTotal

\* page index 3 with 25 rows of 500 and no next page: 500 of 500
C19_Witness ==
    /\ Rendered
    /\ ~list.pageLinks.next.results /\ list.pageLinks.previous.results
    /\ PageIndex(location) = 3
    /\ list.groupCount = 25 /\ list.queryCount = 500 /\ list.itemsRemoved = 0
    /\ Caption = [shown |-> 500, total |-> 500]

\* C20 as stated: with a further next page, shown is (page index + 1) * page
\* size, at most the adjusted total and at least the rows loaded.
C20_PageSizeMultiple ==
    (Rendered /\ list.pageLinks.next.results) =>
        Caption.shown =
            Max(list.groupCount, Min((PageIndex(location) + 1) * MAX_ITEMS, AdjustedTotal))

\* C20: with a further next page, shown is the count of issues up to this
\* page less the items removed, never below 0: the rows loaded on the first
\* available page (no previous results), else page index * page size plus
\* the rows loaded, at most the issue count.  With a full page of rows,
\* nothing removed and previous results exactly on later pages, that is
\* (page index + 1) * page size limited to the total: 25 of 500 at page 0,
\* 50 of 500 at page 1.
C20_PageBasedCount ==
    (Rendered /\ list.pageLinks.next.results) =>
        LET page == PageIndex(location)
            upTo == IF list.pageLinks.previous.results
                    THEN Min(page * MAX_ITEMS + list.groupCount, list.queryCount)
                    ELSE list.groupCount
        IN  /\ upTo >= list.itemsRemoved => Caption.shown + list.itemsRemoved = upTo
            /\ upTo < list.itemsRemoved => Caption.shown = 0
            /\ (/\ list.groupCount = MAX_ITEMS
                /\ list.itemsRemoved = 0
                /\ list.pageLinks.previous.results = (page > 0))
                  => Caption.shown = Min((page + 1) * MAX_ITEMS, Caption.total)
            /\ (list.groupCount = 25 /\ list.queryCount = 500 /\ list.itemsRemoved = 0) =>
                  /\ (page = 0 /\ ~list.pageLinks.previous.results) =>
                        Caption = [shown |-> 25, total |-> 500]
                  /\ (page = 1 /\ list.pageLinks.previous.results) =>
                        Caption = [shown |-> 50, total |-> 500]

\* page index 1 between a previous and a next page, 25 rows of 500: 50 of 500
C20_Witness ==
    /\ Rendered
    /\ list.pageLinks.next.results /\ list.pageLinks.previous.results
    /\ PageIndex(location) = 1
    /\ list.groupCount = 25 /\ list.queryCount = 500 /\ list.itemsRemoved = 0
    /\ Caption = [shown |-> 50, total |-> 500]

\* C21: removed items reduce both numbers of the caption: on a page with
\* previous and next results the total is the issue count minus the items
\* removed and shown is the page-based count (page index * page size plus the
\* rows loaded, at most the issue count) minus the items removed, never
\* below 0; 75 issues, 1 removed, 25 rows at page index 1 give 49 of 74.
C21_RemovedItemsReduceBoth ==
    (Rendered /\ list.pageLinks.previous.results /\ list.pageLinks.next.results) =>
        LET pageBased == Min(PageIndex(location) * MAX_ITEMS + list.groupCount,
                             list.queryCount)
        IN  /\ Caption.total = list.queryCount - list.itemsRemoved
            /\ Caption.shown = Max(pageBased - list.itemsRemoved, 0)
            /\ (/\ list.queryCount = 75 /\ list.itemsRemoved = 1
                /\ list.groupCount = 25 /\ PageIndex(location) = 1)
                  => Caption = [shown |-> 49, total |-> 74]

\* 75 issues, 1 removed, 25 rows at page index 1 between two pages: 49 of 74
C21_Witness ==
    /\ Rendered
    /\ list.pageLinks.previous.results /\ list.pageLinks.next.results
    /\ list.queryCount = 75 /\ list.itemsRemoved = 1 /\ list.groupCount = 25
    /\ PageIndex(location) = 1
    /\ Caption = [shown |-> 49, total |-> 74]

C23_NoPagingWithoutLinks ==
    /\ linkHeader.kind # "links" =>
          /\ ~ParseLinkHeader(linkHeader).previous.results
          /\ ~ParseLinkHeader(linkHeader).next.results
          /\ ~ENABLED Page
    /\ last.event = "cursor" =>
          /\ last.info.header.kind = "links"
          /\ last.info.header[last.info.dir].results
    /\ (adopted # None /\ linkHeader = LinkHeader(0)) =>
          /\ ~ParseLinkHeader(linkHeader).previous.results
          /\ ~ENABLED OnCursorChange("previous")

\* a later page was asked for and its response, which the list adopted, came
\* with a malformed Link header
C23_Witness ==
    /\ last.event = "response"
    /\ adopted # None
    /\ Has(adopted.params, "cursor")
    /\ Has(location.query, "cursor")
    /\ linkHeader = MalformedLinkHeader
    /\ ~ENABLED Page

\* C24: the navigation pushed when a pin or unpin call completes is built
\* only from the location captured when the toggle was clicked: whatever the
\* location has become while the call was in flight, the completion pushes
\* the click-time query without cursor and page (for unpin with the pinned
\* search's query and sort) and that becomes the location.
C24_ClickTimeLocation ==
    /\ PinSucceeded =>
          /\ Len(last.nav) = 1
          /\ last.nav[1].query = Omit(last.info.call.location.query, {"cursor", "page"})
          /\ location = last.nav[1]
    /\ UnpinSucceeded =>
          /\ Len(last.nav) = 1
          /\ Omit(last.nav[1].query, {"query", "sort"})
                = Omit(last.info.call.location.query, {"query", "sort", "cursor", "page"})
          /\ location = last.nav[1]

\* a pin call completed after the location had changed under it: the newer
\* location's project filter is overwritten by the click-time one
C24_Witness ==
    /\ PinSucceeded
    /\ last.info.before.location # last.info.call.location
    /\ Has(last.info.call.location.query, "cursor")
    /\ last.info.before.location.query.project # last.info.call.location.query.project
    /\ location.query.project = last.info.call.location.query.project
    /\ ~Has(location.query, "cursor")

\* IssueAlertOptions has just reported to its parent; what it reported
Reported == alertOptions # None /\ Has(last.info, "data")
ReportedData == last.info.data

\* C25: in every fragment IssueAlertOptions reports to its parent, after any
\* sequence of form events, defaultRules and shouldCreateCustomRule are
\* determined by alertSetting alone: alert on every issue gives (true, false),
\* create later (false, false), customized (false, true); never both true.
C25_FlagsFollowAlertSetting ==
    Reported =>
        /\ alertOptions.alertSetting = ALERT_ON_EVERY_ISSUE =>
              ReportedData.defaultRules /\ ~ReportedData.shouldCreateCustomRule
        /\ alertOptions.alertSetting = CREATE_ALERT_LATER =>
              ~ReportedData.defaultRules /\ ~ReportedData.shouldCreateCustomRule
        /\ alertOptions.alertSetting = CUSTOMIZED_ALERTS =>
              ~ReportedData.defaultRules /\ ReportedData.shouldCreateCustomRule
        /\ ~(ReportedData.defaultRules /\ ReportedData.shouldCreateCustomRule)

\* a customized rule was filled in and then "alert on every issue" chosen:
\* the flags are (true, false) although a condition is still carried
C25_Witness ==
    /\ Reported
    /\ last.event = "alertSetting"
    /\ alertOptions.alertSetting = ALERT_ON_EVERY_ISSUE
    /\ alertOptions.threshold = "10"
    /\ ReportedData.conditions # <<>>
    /\ ReportedData.defaultRules /\ ~ReportedData.shouldCreateCustomRule

\* C26: reported data with shouldCreateCustomRule = true always carries a
\* non-empty conditions list; a custom rule is never requested with
\* conditions undefined.
C26_CustomRuleHasConditions ==
    (Reported /\ ReportedData.shouldCreateCustomRule) =>
        /\ ReportedData.conditions # <<>>
        /\ Len(ReportedData.conditions[1]) > 0

\* the response just loaded has a frequency condition and all its frequency
\* conditions carry the same, non-empty interval choices
ProperlyLoaded(response) ==
    LET matching == {i \in DOMAIN response :
                        response[i].id \in {EVENT_FREQUENCY_CONDITION,
                                            UNIQUE_USER_FREQUENCY_CONDITION}}
    IN  /\ matching # {}
        /\ \A i, j \in matching : response[i].choices = response[j].choices
        /\ \A i \in matching :
              response[i].choices # <<>> /\ Len(response[i].choices[1]) > 0

\* C27: once the rule-conditions endpoint has loaded, the customized-alerts
\* option is offered only if a loaded condition is the event-frequency or
\* the unique-user-frequency condition and all such conditions carry the
\* same, non-empty interval choices; otherwise state.conditions is undefined,
\* no interval is selected and the option is not offered.
C27_CustomizedOnlyWhenProperlyLoaded ==
    last.event = "conditionsLoaded" =>
        /\ CUSTOMIZED_ALERTS \in getIssueAlertsChoices(alertOptions) =>
              ProperlyLoaded(last.info.response)
        /\ ~ProperlyLoaded(last.info.response) =>
              /\ alertOptions.conditions = <<>>
              /\ alertOptions.interval = ""
              /\ CUSTOMIZED_ALERTS \notin getIssueAlertsChoices(alertOptions)

\* two frequency conditions with different interval choices were loaded
C27_Witness ==
    /\ last.event = "conditionsLoaded"
    /\ Len(last.info.response) = 2
    /\ last.info.response[1].id = EVENT_FREQUENCY_CONDITION
    /\ last.info.response[2].id = UNIQUE_USER_FREQUENCY_CONDITION
    /\ last.info.response[1].choices = <<ChoicesMinutes>>
    /\ last.info.response[2].choices = <<ChoicesHours>>
    /\ alertOptions.conditions = <<>>
    /\ CUSTOMIZED_ALERTS \notin getIssueAlertsChoices(alertOptions)

\* C30: when GPUEventContext renders data with vendor_id > 0 the vendor id
\* type, and with id > 0 the id type, is among the known data types passed
\* to the known-data block and so kept out of the unknown-data block; with
\* values <= 0 they are not among them.
C30_IdsAreKnown ==
    last.event = "gpu" =>
        /\ last.info.data.vendor_id > 0 <=> "vendor_id" \in Elements(last.info.knownDataTypes)
        /\ last.info.data.id > 0 <=> "id" \in Elements(last.info.knownDataTypes)
        /\ last.info.data.vendor_id > 0 => "vendor_id" \notin last.info.unknownKeys
        /\ last.info.data.id > 0 => "id" \notin last.info.unknownKeys

\* ExternalIssueList has loaded and renders its body
BodyRendered == externalIssues # None /\ ~externalIssues.state.loading

\* none of the four sections has anything to display
NothingToDisplay ==
    LET state == externalIssues.state
        integrations == IF state.integrations = <<>> THEN <<>> ELSE state.integrations[1]
    IN  /\ ~\E i \in DOMAIN state.components :
               /\ state.components[i].type = "issue-link"
               /\ state.components[i].sentryApp \in state.sentryAppInstallations
        /\ ~\E i \in DOMAIN integrations : integrations[i].status = "active"
        /\ renderPluginIssues(externalIssues.group) = <<>>
        /\ renderPluginActions(externalIssues.group) = <<>>

\* C28: ExternalIssueList shows the setup link exactly when none of the four
\* sections has anything to display: no issue-link component with a matching
\* installation, no active integration, no plugin issue and no plugin action.
C28_SetupLinkWhenNothingToDisplay ==
    BodyRendered => (renderBody(externalIssues).showSetup <=> NothingToDisplay)

\* C29: PerformanceLanding never issues the history replace that clears the
\* landingDisplay parameter on its initial mount; after mount it issues
\* exactly one for each render whose project selection differs from that of
\* the previous render, with the pathname and all other query parameters
\* of that render's location.
C29_ReplaceOnProjectChange ==
    /\ last.event = "mount" => last.nav = <<>>
    /\ last.event = "landingRender" =>
          IF last.info.project # last.info.previous
          THEN /\ Len(last.nav) = 1
               /\ last.nav[1].pathname = last.info.location.pathname
               /\ ~Has(last.nav[1].query, "landingDisplay")
               /\ Omit(last.nav[1].query, {"landingDisplay"})
                     = Omit(last.info.location.query, {"landingDisplay"})
          ELSE last.nav = <<>>

\* the selection changed from projects 1 and 2 to project 12 on a location
\* with a landingDisplay and a query: one replace, the query kept
C29_Witness ==
    /\ last.event = "landingRender"
    /\ last.info.previous = <<1, 2>>
    /\ last.info.project = <<12>>
    /\ Has(last.info.location.query, "landingDisplay")
    /\ Len(last.nav) = 1
    /\ last.nav[1].query = [query |-> "transaction:foo"]
    /\ landing.location = last.nav[1]

====
